---- MODULE Spec2Model ----
(***************************************************************************)
(* A model of the TLV packer of src/src/core/tlv.ts (packTlv and the tag   *)
(* encoder registry `map`) and of the request paths of src/src/friend.ts   *)
(* that read the session sequence counter.                                 *)
(*                                                                         *)
(* Byte strings (Buffer) are sequences over 0..255. JavaScript strings are *)
(* sequences of UTF-16 code units; Buffer.from(string) is Utf8. A Writer   *)
(* is [b, ok, err]: the bytes its chain of writes accumulated, or the      *)
(* exception that aborted the chain.                                       *)
(***************************************************************************)
EXTENDS Integers, Sequences, FiniteSets, Bags, TLC

VARIABLES profile, sig, call, ret, ext, prev, pc, lseq, pseq,
          client, run, weakmap, heap

vars == <<profile, sig, call, ret, ext, prev, pc, lseq, pseq,
         client, run, weakmap, heap>>

----------------------------------------------------------------------------
(* Bounds of the model *)

\* longest short string / buffer the inputs are drawn with
MaxFill == 3
\* the session counter is advanced at most up to this value between calls
MaxSeq == 2
\* the session counter is advanced at most up to this value by requests
MaxSend == 5
\* redraws of the proof-of-work seed's first byte that one call may need
MaxRedraw == 2
\* how far the long device strings exceed their caps
Over == 8

(* Program constants *)

\* Buffer.writeUInt16BE accepts 0..0xFFFF (packTlv's length field)
U16Max == 65535
\* crypto.randomBytes(128): the proof-of-work seed
SeedLen == 128
\* const cnt = 10000: the work factor
PowCnt == 10000
\* padStart(256, "0"): hex digits of the target
PadHex == 256
\* the domains of the Set of tag 0x511 that are not commented out
EnabledDomains == 19

----------------------------------------------------------------------------
(* Bytes, strings *)

Rep(x, n) == [i \in 1..n |-> x]

Take(s, n) == SubSeq(s, 1, IF n < Len(s) THEN n ELSE Len(s))

\* one UTF-16 code unit (a BMP character that is no surrogate) as UTF-8
Utf8Char(c) ==
    IF c < 128 THEN <<c>>
    ELSE IF c < 2048 THEN <<192 + (c \div 64), 128 + (c % 64)>>
    ELSE <<224 + (c \div 4096), 128 + ((c \div 64) % 64), 128 + (c % 64)>>

RECURSIVE Utf8Rng(_, _, _)
Utf8Rng(s, lo, hi) ==
    IF lo > hi THEN <<>>
    ELSE IF lo = hi THEN Utf8Char(s[lo])
    ELSE LET m == (lo + hi) \div 2
         IN  Utf8Rng(s, lo, m) \o Utf8Rng(s, m + 1, hi)

\* Buffer.from(string): ASCII text encodes to itself, unit by unit
Utf8(s) == IF s \in Seq(0..127) THEN s ELSE Utf8Rng(s, 1, Len(s))

U8(v) == <<v>>
U16BE(v) == <<v \div 256, v % 256>>
U32BE(v) == <<v \div 16777216, (v \div 65536) % 256, (v \div 256) % 256, v % 256>>
\* two's complement of a signed 32-bit value
I32BE(v) == <<(v \div 16777216) % 256, (v \div 65536) % 256, (v \div 256) % 256, v % 256>>
U64BE(v) == <<0, 0, 0, 0>> \o U32BE(v)

ReadU16BE(b, off) == b[off + 1] * 256 + b[off + 2]

----------------------------------------------------------------------------
(* Writer *)

Ok(b) == [b |-> b, ok |-> TRUE, err |-> ""]
Throw(e) == [b |-> <<>>, ok |-> FALSE, err |-> e]

\* what one write of a chain appends, or the exception it throws
writeBytes(v) == Ok(v)

writeU8(v) == IF v \in 0..255 THEN Ok(U8(v)) ELSE Throw("RangeError")

writeU16(v) == IF v \in 0..U16Max THEN Ok(U16BE(v)) ELSE Throw("RangeError")

writeU32(v) == IF v >= 0 THEN Ok(U32BE(v)) ELSE Throw("RangeError")

write32(v) == Ok(I32BE(v))

writeU64(v) == IF v >= 0 THEN Ok(U64BE(v)) ELSE Throw("RangeError")

\* writeTlv(v): writeU16(v.length), then the bytes
writeTlv(v) == IF writeU16(Len(v)).ok THEN Ok(U16BE(Len(v)) \o v) ELSE writeU16(Len(v))

\* writeBytes and writeTlv of a string: Buffer.from(string) first
writeStr(s) == writeBytes(Utf8(s))

writeTlvStr(s) == writeTlv(Utf8(s))

RECURSIVE WriterCat(_, _, _)
\* the bytes of the lo-th to the hi-th write, in order
WriterCat(parts, lo, hi) ==
    IF lo > hi THEN <<>>
    ELSE IF lo = hi THEN parts[lo].b
    ELSE LET m == (lo + hi) \div 2
         IN  WriterCat(parts, lo, m) \o WriterCat(parts, m + 1, hi)

\* new Writer() and the chain of writes on it: the bytes of all the writes in
\* order, or the exception of the first write that throws
Writer(parts) ==
    LET bad == {i \in 1..Len(parts) : ~parts[i].ok}
    IN  IF bad = {} THEN Ok(WriterCat(parts, 1, Len(parts)))
        ELSE parts[CHOOSE i \in bad : \A j \in bad : i <= j]

NewWriter == Writer(<<>>)

----------------------------------------------------------------------------
(* JavaScript values that meet `||`: undefined, a number, a string, a Buffer *)

Undef == [n |-> 0, v |-> <<>>, t |-> "undefined"]
Num(n) == [n |-> n, v |-> <<>>, t |-> "number"]
Str(s) == [n |-> 0, v |-> s, t |-> "string"]
Buf(b) == [n |-> 0, v |-> b, t |-> "buffer"]

\* ToBoolean: undefined, 0 and "" are falsy; every object, so every Buffer,
\* the zero-length one too, is truthy
Truthy(x) ==
    CASE x.t = "undefined" -> FALSE
      [] x.t = "number" -> x.n # 0
      [] x.t = "string" -> x.v # <<>>
      [] OTHER -> TRUE

\* a || b
OrElse(a, b) == IF Truthy(a) THEN a ELSE b

\* the bytes Writer.writeBytes stores for a string or a Buffer
BytesOf(x) == IF x.t = "string" THEN Utf8(x.v) ELSE x.v

\* String(n) for 0 <= n < 10^9
DecStr(n) ==
    LET d == CHOOSE k \in 1..9 : n < 10^k /\ (k = 1 \/ n >= 10^(k - 1))
    IN  [i \in 1..d |-> 48 + ((n \div 10^(d - i)) % 10)]

----------------------------------------------------------------------------
(* Clock and randomness: the inputs of a call that are not its arguments *)

\* A clock value: Date.now() = (hi * 65536 + lo) * 1000 + ms

\* the seconds converted to 32 bits by saturation: a value of 2^31 or more
\* becomes the largest signed value
NowSec32_clamped(now) ==
    IF now.hi >= 32768 THEN 2147483647 ELSE now.hi * 65536 + now.lo

\* (Date.now() / 1000) & 0xffffffff: ToInt32 of the seconds
NowSec32(now) ==
    LET h == now.hi % 65536
    IN  IF h >= 32768 THEN (h - 65536) * 65536 + now.lo ELSE h * 65536 + now.lo

\* (new Date()).getTime() as 8 bytes, for the external signer
NowMsBytes(now) == U16BE(now.hi \div 65536) \o U16BE(now.hi % 65536)
                   \o U16BE(now.lo) \o U16BE(now.ms)

\* crypto.randomBytes(n): the k-th draw of the call whose entropy is rnd
randomBytes(rnd, k, n) == [i \in 1..n |-> (rnd * 37 + k * 101 + i * 11) % 256]

----------------------------------------------------------------------------
(* Collaborators outside src/: digests, cipher, protobuf, signer, solver *)

\* the sum of the bytes of b, the i-th weighted by 1 + w * (i % 16), each
\* term taken modulo 251
WSum(b, w) ==
    LET term(i) == ((1 + w * (i % 16)) * b[i]) % 251
    IN  BagCardinality([i \in {k \in 1..Len(b) : term(k) # 0} |-> term(i)])

\* a digest of n bytes of b
Digest(b, n, salt) ==
    LET s1 == WSum(b, 0) % 65536
        s2 == WSum(b, 1) % 65536
    IN  [j \in 1..n |-> (s1 * j + s2 * (2 * j + 1) + Len(b) * 7 + j * j + salt) % 256]

md5(b) == Digest(b, 16, 5)

sha256(b) == Digest(b, 32, 2)

\* tea.encrypt: header byte, random filler, plaintext, seven zero bytes, a
\* multiple of 8 bytes in all, under a keyed byte substitution
teaFill(n) == (8 - ((n + 10) % 8)) % 8

teaFrame(data, rnd) ==
    LET fill == teaFill(Len(data))
        r == randomBytes(rnd, 9, fill + 3)
    IN  <<(r[1] - (r[1] % 8)) + fill>> \o SubSeq(r, 2, fill + 3) \o data
        \o <<0, 0, 0, 0, 0, 0, 0>>

teaKeyAt(key, i) == IF key = <<>> THEN 0 ELSE key[((i - 1) % Len(key)) + 1]

teaEncrypt(data, key, rnd) ==
    LET p == teaFrame(data, rnd)
    IN  [i \in 1..Len(p) |-> (p[i] + teaKeyAt(key, i) + i) % 256]

teaDecrypt(c, key) ==
    LET p == [i \in 1..Len(c) |-> (c[i] - teaKeyAt(key, i) - i) % 256]
        fill == p[1] % 8
    IN  SubSeq(p, fill + 4, Len(p) - 7)

\* pb.encode of a record of strings: each field, in key order, as a
\* length-delimited protobuf field
pbVarint(n) == IF n < 128 THEN <<n>> ELSE <<128 + (n % 128), n \div 128>>

pbField(k, s) == LET b == Utf8(s) IN <<k * 8 + 2>> \o pbVarint(Len(b)) \o b

\* sign(timestamp_ms, salt): the external signer
sign(now, salt) == Digest(NowMsBytes(now) \o salt, 16, 11)

\* this.calcPoW(challenge): the external proof-of-work solver
calcPoW(t546) == Digest(t546, 32, 23) \o U16BE(Len(t546))

----------------------------------------------------------------------------
(* String literals of tlv.ts, as code units *)

S_android == <<97, 110, 100, 114, 111, 105, 100>>
S_7_1_2 == <<55, 46, 49, 46, 50>>
S_ChinaMobileGSM == <<67, 104, 105, 110, 97, 32, 77, 111, 98, 105, 108, 101, 32, 71, 83, 77>>
S_wifi == <<119, 105, 102, 105>>
S_bar == <<124>>

BUF0 == <<>>

\* the enabled entries of the Set<Domain> of tag 0x511, in insertion order:
\* aq, connect, docs, game, gamecenter, haoma, id, kg, mail, mma, office,
\* openmobile, qqweb, qun, qzone, ti, v, vip, y (each .qq.com)
domains ==
    <<<<97, 113, 46, 113, 113, 46, 99, 111, 109>>,
       <<99, 111, 110, 110, 101, 99, 116, 46, 113, 113, 46, 99, 111, 109>>,
       <<100, 111, 99, 115, 46, 113, 113, 46, 99, 111, 109>>,
       <<103, 97, 109, 101, 46, 113, 113, 46, 99, 111, 109>>,
       <<103, 97, 109, 101, 99, 101, 110, 116, 101, 114, 46, 113, 113, 46, 99, 111, 109>>,
       <<104, 97, 111, 109, 97, 46, 113, 113, 46, 99, 111, 109>>,
       <<105, 100, 46, 113, 113, 46, 99, 111, 109>>,
       <<107, 103, 46, 113, 113, 46, 99, 111, 109>>,
       <<109, 97, 105, 108, 46, 113, 113, 46, 99, 111, 109>>,
       <<109, 109, 97, 46, 113, 113, 46, 99, 111, 109>>,
       <<111, 102, 102, 105, 99, 101, 46, 113, 113, 46, 99, 111, 109>>,
       <<111, 112, 101, 110, 109, 111, 98, 105, 108, 101, 46, 113, 113, 46, 99, 111, 109>>,
       <<113, 113, 119, 101, 98, 46, 113, 113, 46, 99, 111, 109>>,
       <<113, 117, 110, 46, 113, 113, 46, 99, 111, 109>>,
       <<113, 122, 111, 110, 101, 46, 113, 113, 46, 99, 111, 109>>,
       <<116, 105, 46, 113, 113, 46, 99, 111, 109>>,
       <<118, 46, 113, 113, 46, 99, 111, 109>>,
       <<118, 105, 112, 46, 113, 113, 46, 99, 111, 109>>,
       <<121, 46, 113, 113, 46, 99, 111, 109>>>>

----------------------------------------------------------------------------
(* Proof of work of tag 0x548 *)

GoodFirst(x) == x # 0 /\ x # 255

\* while (src[0] === 0 || src[0] === 255) src[0] = crypto.randomBytes(1)[0]
\* over the redraws the call's entropy holds
PowLoopEnds(src, draws) == GoodFirst(src[1]) \/ \E i \in 1..Len(draws) : GoodFirst(draws[i])

\* the seed before the resampling, kept as drawn
PowSeed_asdrawn(src, draws) == src

PowSeed(src, draws) ==
    IF GoodFirst(src[1]) THEN src
    ELSE LET g == CHOOSE i \in 1..Len(draws) :
                    GoodFirst(draws[i]) /\ \A j \in 1..(i - 1) : ~GoodFirst(draws[j])
         IN  [src EXCEPT ![1] = draws[g]]

\* src.toString("hex"): two hex digits a byte
toHex(b) == [i \in 1..(2 * Len(b)) |->
                IF i % 2 = 1 THEN b[(i + 1) \div 2] \div 16 ELSE b[i \div 2] % 16]

\* BigInt('0x' + hex): the number, as hex digits without leading zeros
BigIntOfHex(d) ==
    LET nz == {i \in 1..Len(d) : d[i] # 0}
    IN  IF nz = {} THEN <<>>
        ELSE SubSeq(d, CHOOSE i \in nz : \A j \in nz : i <= j, Len(d))

\* the hex digits of 0 < n < 2^31, without leading zeros
HexDigits(n) ==
    LET m == CHOOSE c \in 1..8 : (c = 8 \/ n < 16^c) /\ (c = 1 \/ n >= 16^(c - 1))
    IN  [i \in 1..m |-> (n \div 16^(m - i)) % 16]

\* the value of at most four hex digits
HexVal(d) == IF d = <<>> THEN 0
             ELSE LET n == Len(d)
                  IN  (IF n >= 4 THEN d[n - 3] * 4096 ELSE 0)
                      + (IF n >= 3 THEN d[n - 2] * 256 ELSE 0)
                      + (IF n >= 2 THEN d[n - 1] * 16 ELSE 0) + d[n]

\* a + BigInt(k) for 0 < k < 16^4, a without leading zeros: arbitrary precision,
\* the sum has one digit more when the carry leaves the top digit
BigAdd(a, k) ==
    LET n == Len(a)
    IN  IF n <= 4 THEN HexDigits(HexVal(a) + k)
        ELSE LET s == HexVal(SubSeq(a, n - 3, n)) + k
                 low == [i \in 1..4 |-> ((s % 65536) \div 16^(4 - i)) % 16]
                 up == SubSeq(a, 1, n - 4)
                 nf == {i \in 1..(n - 4) : up[i] # 15}
             IN  IF s < 65536 THEN up \o low
                 ELSE IF nf = {} THEN <<1>> \o [i \in 1..(n - 4) |-> 0] \o low
                 ELSE LET p == CHOOSE i \in nf : \A j \in nf : j <= i
                      IN  [i \in 1..(n - 4) |->
                              IF i < p THEN up[i] ELSE IF i = p THEN up[i] + 1 ELSE 0]
                          \o low

\* dstNum.toString(16).padStart(256, "0")
padStart(d, n) == IF Len(d) >= n THEN d ELSE [i \in 1..(n - Len(d)) |-> 0] \o d

\* Buffer.from(hex, "hex"): one byte for every full pair of digits
BufferFromHex(d) == [i \in 1..(Len(d) \div 2) |-> d[2 * i - 1] * 16 + d[2 * i]]

\* the target without the padding to 256 digits
PowDst_unpadded(seed) ==
    BufferFromHex(BigAdd(BigIntOfHex(toHex(seed)), PowCnt))

\* const dst: the target of the seed
PowDst(seed) ==
    LET srcNum == BigIntOfHex(toHex(seed))
        dstNum == BigAdd(srcNum, PowCnt)
    IN  BufferFromHex(padStart(dstNum, PadHex))

\* const tgt: the digest of the target
PowTgt(seed) == sha256(PowDst(seed))

\* the challenge handed to this.calcPoW: writer.read() empties the writer, so
\* what follows it is the copy and the length-prefixed copy
PowChallenge(seed) ==
    LET writer == Writer(<<writeU8(1), writeU8(2), writeU8(1), writeU8(2), writeU16(10),
                           writeBytes(<<0, 0>>), writeTlv(seed), writeTlv(PowTgt(seed))>>)
        cpy == writer.b
    IN  Writer(<<writeBytes(cpy), writeTlv(cpy)>>)

----------------------------------------------------------------------------
(* Device and application profiles: the clients Init draws from *)

\* n code units: ASCII letters, or one character of 2 or of 3 UTF-8 bytes
Ascii(n) == [i \in 1..n |-> 97 + (i % 26)]
Latin(n) == [i \in 1..n |-> 233]
Cjk(n) == [i \in 1..n |-> 23567]
Bytes(n) == [i \in 1..n |-> (i * 7) % 256]

RECURSIVE Dbl(_, _)
Dbl(x, n) == IF n = 0 THEN x ELSE Dbl(x \o x, n - 1)

\* U16Max + 1 bytes, or ASCII code units
Huge == Dbl(<<97>>, 16)
HugeFit == SubSeq(Huge, 1, U16Max)

BaseDevice ==
    [ip_address |-> <<49, 48, 46, 48, 46, 48, 46, 49>>, guid |-> Bytes(16),
     imei |-> <<56, 54, 52, 53>>, os_type |-> S_android,
     version |-> [release |-> <<49, 48>>, codename |-> <<82, 69, 76>>,
                 incremental |-> <<53, 56, 57, 49, 57>>],
     sim |-> <<84, 45, 77, 111, 98, 105, 108, 101>>, apn |-> S_wifi,
     model |-> <<73, 67, 81, 81>>, brand |-> <<73, 67, 81, 81>>,
     mac_address |-> <<48, 50, 58, 48, 48, 58, 48, 48, 58, 48, 48>>,
     android_id |-> <<66, 82, 65, 78, 68, 46, 49>>, imsi |-> Bytes(16),
     wifi_bssid |-> <<48, 48, 58, 53, 48, 58, 53, 54, 58, 67, 48>>,
     wifi_ssid |-> <<84, 80, 45, 76, 73, 78, 75, 45, 50, 55, 49, 49>>,
     bootloader |-> <<85, 45, 98, 111, 111, 116>>,
     proc_version |-> <<76, 105, 110, 117, 120, 32, 53>>,
     fingerprint |-> <<73, 67, 81, 81, 47, 120>>, boot_id |-> <<98, 48>>, baseband |-> <<>>]

BaseApk ==
    [sign |-> Bytes(16), ssover |-> 20, appid |-> 16, subid |-> 537164840,
     id |-> <<99, 111, 109, 46, 116, 101, 110, 99, 101, 110, 116, 46,
              109, 111, 98, 105, 108, 101, 113, 113>>,
     ver |-> <<56, 46, 57, 46, 54, 51>>, bitmap |-> 150470524, main_sig_map |-> 16724722,
     name |-> <<65, 56, 46, 57, 46, 54, 51>>, sub_sig_map |-> 66560,
     buildtime |-> 1685069178, sdkver |-> <<54, 46, 48, 46, 48, 46, 50, 53, 52, 54>>]

\* every capped field longer than its cap by Over, in ASCII
LongDevice(over) ==
    [BaseDevice EXCEPT !.os_type = Ascii(16 + over),
                       !.version.release = Ascii(16 + over),
                       !.sim = Ascii(16 + over), !.apn = Ascii(16 + over),
                       !.brand = Ascii(16 + over), !.model = Ascii(32 + over),
                       !.wifi_bssid = Ascii(16 + over),
                       !.wifi_ssid = Ascii(32 + over)]

\* capped fields exactly at their caps
CapDevice ==
    [BaseDevice EXCEPT !.os_type = Ascii(16), !.version.release = Ascii(16),
                       !.sim = Ascii(16), !.apn = Ascii(16), !.brand = Ascii(16),
                       !.model = Ascii(32), !.wifi_bssid = Ascii(16),
                       !.wifi_ssid = Ascii(32)]

\* capped fields in characters of more than one UTF-8 byte: fewer code units
\* than the cap, more bytes than the cap
WideDevice ==
    [BaseDevice EXCEPT !.os_type = Latin(9), !.version.release = Cjk(6),
                       !.sim = Cjk(7), !.apn = Latin(10), !.brand = Cjk(6),
                       !.model = Cjk(12), !.wifi_bssid = Latin(12),
                       !.wifi_ssid = Cjk(11)]

Profiles ==
    <<[uin |-> 10001, device |-> BaseDevice, apk |-> BaseApk],
      [uin |-> 905000123, device |-> LongDevice(Over),
       apk |-> [BaseApk EXCEPT !.id = Ascii(32 + Over)]],
      [uin |-> 10001, device |-> CapDevice, apk |-> [BaseApk EXCEPT !.id = Ascii(32)]],
      [uin |-> 10001, device |-> WideDevice, apk |-> [BaseApk EXCEPT !.id = Cjk(11)]],
      [uin |-> 10001, device |-> [BaseDevice EXCEPT !.sim = HugeFit, !.model = HugeFit],
       apk |-> BaseApk],
      [uin |-> 10001, device |-> [BaseDevice EXCEPT !.sim = Huge, !.model = Huge],
       apk |-> BaseApk]>>

\* the client's account, device profile and application profile: set when the
\* client is constructed, read by the encoders as this.uin, this.device,
\* this.apk
uin == Profiles[profile].uin
device == Profiles[profile].device
apk == Profiles[profile].apk

----------------------------------------------------------------------------
(* The tag encoder registry `map`. An encoder reads the client (uin, device,
   apk, sig), its arguments a (a[1], a[2], a[3]; Undef where none is passed)
   and the call's entropy and clock e = [rnd, now, src, draws]. *)

RECURSIVE packTlv(_, _, _)

map_0x01(e) ==
    Writer(<<writeU16(1), writeBytes(randomBytes(e.rnd, 1, 4)), writeU32(uin),
             write32(NowSec32(e.now)), writeStr(device.ip_address), writeU16(0)>>)

map_0x08 == Writer(<<writeU16(0), writeU32(2052), writeU16(0)>>)

map_0x16 ==
    Writer(<<writeU32(apk.ssover), writeU32(apk.appid), writeU32(apk.subid),
             writeBytes(device.guid), writeTlvStr(apk.id), writeTlvStr(apk.ver),
             writeTlv(apk.sign)>>)

map_0x18 ==
    Writer(<<writeU16(1), writeU32(1536), writeU32(apk.appid), writeU32(0),
             writeU32(uin), writeU16(0), writeU16(0)>>)

map_0x1B ==
    Writer(<<writeU32(0), writeU32(0), writeU32(3), writeU32(4), writeU32(72),
             writeU32(2), writeU32(2), writeU16(0)>>)

map_0x1D ==
    Writer(<<writeU8(1), writeU32(apk.bitmap), writeU32(0), writeU8(0), writeU32(0)>>)

map_0x1F ==
    Writer(<<writeU8(0), writeTlvStr(S_android), writeTlvStr(S_7_1_2), writeU16(2),
             writeTlvStr(S_ChinaMobileGSM), writeTlv(BUF0), writeTlvStr(S_wifi)>>)

map_0x33 == Writer(<<writeBytes(device.guid)>>)

map_0x35(a) == Writer(<<writeU32(a[1].n)>>)

map_0x100(a) ==
    Writer(<<writeU16(1), writeU32(apk.ssover), write32(apk.appid),
             writeU32(OrElse(a[1], Num(apk.subid)).n), writeU32(0),
             writeU32(apk.main_sig_map)>>)

map_0x104 == Writer(<<writeBytes(sig.t104)>>)

map_0x106(a, e) ==
    LET md5pass == a[1].v
        body == Writer(<<writeU16(4), writeBytes(randomBytes(e.rnd, 1, 4)),
                         writeU32(apk.ssover), writeU32(apk.appid), writeU32(0),
                         writeU64(uin), write32(NowSec32(e.now)),
                         writeBytes(<<0, 0, 0, 0>>), writeU8(1), writeBytes(md5pass),
                         writeBytes(sig.tgtgt), writeU32(0), writeU8(1),
                         writeBytes(device.guid), writeU32(apk.subid), writeU32(1),
                         writeTlvStr(DecStr(uin)), writeU16(0)>>)
        buf == U32BE(uin)
        key == md5(md5pass \o <<0, 0, 0, 0>> \o buf)
    IN  IF body.ok THEN Writer(<<writeBytes(teaEncrypt(body.b, key, e.rnd))>>) ELSE body

map_0x107 == Writer(<<writeU16(0), writeU8(0), writeU16(0), writeU8(1)>>)

map_0x108 ==
    Writer(<<writeBytes(BytesOf(OrElse(sig.ksid,
                Buf(Utf8(S_bar \o device.imei \o S_bar \o apk.name)))))>>)

map_0x109 == Writer(<<writeBytes(md5(Utf8(device.imei)))>>)

map_0x10a == Writer(<<writeBytes(sig.tgt)>>)

map_0x112 == Writer(<<writeTlvStr(DecStr(uin))>>)

map_0x116 ==
    Writer(<<writeU8(0), writeU32(apk.bitmap), writeU32(apk.sub_sig_map), writeU8(1),
             writeU32(1600000226)>>)

map_0x124 ==
    Writer(<<writeTlvStr(Take(device.os_type, 16)),
             writeTlvStr(Take(device.version.release, 16)), writeU16(2),
             writeTlvStr(Take(device.sim, 16)), writeU16(0),
             writeTlvStr(Take(device.apn, 16))>>)

map_0x128 ==
    Writer(<<writeU16(0), writeU8(0), writeU8(1), writeU8(0), writeU32(16777216),
             writeTlvStr(Take(device.model, 32)), writeTlv(Take(device.guid, 16)),
             writeTlvStr(Take(device.brand, 16))>>)

map_0x141 ==
    Writer(<<writeU16(1), writeTlvStr(device.sim), writeU16(2), writeTlvStr(device.apn)>>)

map_0x142 == Writer(<<writeU16(0), writeTlvStr(Take(apk.id, 32))>>)

map_0x143 == Writer(<<writeBytes(sig.d2)>>)

map_0x145 == Writer(<<writeBytes(device.guid)>>)

map_0x147 == Writer(<<writeU32(apk.appid), writeTlvStr(apk.ver), writeTlv(apk.sign)>>)

map_0x154 == Writer(<<writeU32(sig.seq + 1)>>)

map_0x16a(a) == Writer(<<writeBytes(BytesOf(OrElse(a[1], Buf(sig.srm_token))))>>)

map_0x16e == Writer(<<writeStr(device.model)>>)

map_0x174 == Writer(<<writeBytes(sig.t174)>>)

map_0x177 == Writer(<<writeU8(1), writeU32(apk.buildtime), writeTlvStr(apk.sdkver)>>)

map_0x17a == Writer(<<writeU32(9)>>)

map_0x17c(a) == Writer(<<writeTlv(BytesOf(a[1]))>>)

map_0x187 == Writer(<<writeBytes(md5(Utf8(device.mac_address)))>>)

map_0x188 == Writer(<<writeBytes(md5(Utf8(device.android_id)))>>)

map_0x191 == Writer(<<writeU8(130)>>)

map_0x193(a) == Writer(<<writeBytes(BytesOf(a[1]))>>)

map_0x194 == Writer(<<writeBytes(device.imsi)>>)

map_0x197 == Writer(<<writeTlv(<<0>>)>>)

map_0x198 == Writer(<<writeTlv(<<0>>)>>)

map_0x202 ==
    Writer(<<writeTlvStr(Take(device.wifi_bssid, 16)),
             writeTlvStr(Take(device.wifi_ssid, 32))>>)

map_0x400(e) ==
    Writer(<<writeU16(1), writeU64(uin), writeBytes(device.guid),
             writeBytes(randomBytes(e.rnd, 1, 16)), write32(1), write32(16),
             write32(NowSec32(e.now)), writeBytes(<<>>)>>)

map_0x401(e) == Writer(<<writeBytes(randomBytes(e.rnd, 1, 16))>>)

\* the loop of tag 0x511 leaving after its first pass
map_0x511_loop_once(lo, hi) ==
    IF lo > hi THEN <<>> ELSE Writer(<<writeU8(1), writeTlvStr(domains[lo])>>).b

RECURSIVE map_0x511_loop(_, _)
\* for (let v of domains) stream.writeU8(0x01).writeTlv(v): what the loop
\* writes for the lo-th to the hi-th domain
map_0x511_loop(lo, hi) ==
    IF lo > hi THEN <<>>
    ELSE IF lo = hi THEN Writer(<<writeU8(1), writeTlvStr(domains[lo])>>).b
    ELSE LET m == (lo + hi) \div 2
         IN  map_0x511_loop(lo, m) \o map_0x511_loop(m + 1, hi)

map_0x511 ==
    Writer(<<writeU16(Len(domains)), writeBytes(map_0x511_loop(1, Len(domains)))>>)

map_0x516 == Writer(<<writeU32(0)>>)

map_0x521(a) == Writer(<<writeU32(a[1].n), writeU16(0)>>)

map_0x525 == Writer(<<writeU16(1), writeU16(1334), writeTlv(<<2, 1, 0>>)>>)

map_0x523 == Writer(<<writeTlv(<<1, 0>>)>>)

map_0x52d ==
    LET d == device
    IN  Writer(<<writeBytes(
            pbField(1, d.bootloader) \o pbField(2, d.proc_version)
            \o pbField(3, d.version.codename) \o pbField(4, d.version.incremental)
            \o pbField(5, d.fingerprint) \o pbField(6, d.boot_id)
            \o pbField(7, d.android_id) \o pbField(8, d.baseband)
            \o pbField(9, d.version.incremental))>>)

map_0x542 == Writer(<<writeBytes(<<74, 2, 96, 1>>)>>)

\* the salt of tag 0x544 with the variants taken the other way round
salt_0x544_swapped(v, subCmd) ==
    IF v = 2
    THEN Writer(<<writeU64(uin), writeTlv(device.guid), writeTlv(Utf8(apk.sdkver)),
                  writeU32(subCmd)>>)
    ELSE Writer(<<writeU32(0), writeTlv(device.guid), writeTlv(Utf8(apk.sdkver)),
                  writeU32(subCmd), writeU32(0)>>)

\* the salt of tag 0x544: variant B when v === 2, variant A otherwise
salt_0x544(v, subCmd) ==
    IF v = 2
    THEN Writer(<<writeU32(0), writeTlv(device.guid), writeTlv(Utf8(apk.sdkver)),
                  writeU32(subCmd), writeU32(0)>>)
    ELSE Writer(<<writeU64(uin), writeTlv(device.guid), writeTlv(Utf8(apk.sdkver)),
                  writeU32(subCmd)>>)

\* tag 0x544 calling the signer whatever the version is
map_0x544_signs(a, e) ==
    LET salt == salt_0x544(a[1].n, a[2].n)
    IN  IF salt.ok THEN Writer(<<writeBytes(sign(e.now, salt.b))>>) ELSE salt

map_0x544(a, e) ==
    LET v == a[1].n
        subCmd == a[2].n
        signData == IF a[3].t = "undefined" THEN BUF0 ELSE a[3].v
    IN  IF v = -1 THEN Writer(<<writeBytes(signData)>>)
        ELSE LET salt == salt_0x544(v, subCmd)
             IN  IF salt.ok THEN Writer(<<writeBytes(sign(e.now, salt.b))>>) ELSE salt

map_0x545(a) == Writer(<<writeBytes(md5(BytesOf(OrElse(a[1], Str(device.imei)))))>>)

map_0x547 == Writer(<<writeBytes(sig.t547)>>)

map_0x548(e) ==
    LET src == PowSeed(e.src, e.draws)
        t546 == PowChallenge(src)
    IN  IF t546.ok THEN Writer(<<writeBytes(calcPoW(t546.b))>>) ELSE t546

\* the encoder's payload written without the frame of packTlv
writePacked_bare(tag, e) ==
    LET r == packTlv(tag, <<Undef, Undef, Undef>>, e)
    IN  IF r.ok THEN Ok(SubSeq(r.b, 5, Len(r.b))) ELSE r

\* body.writeBytes(packTlv.call(this, tag)): the block, or the exception of
\* the inner pack
writePacked(tag, e) == packTlv(tag, <<Undef, Undef, Undef>>, e)

\* the plaintext of tag 0x144
body_0x144(e) ==
    Writer(<<writeU16(5), writePacked(\h109, e), writePacked(\h52d, e), writePacked(\h124, e),
             writePacked(\h128, e), writePacked(\h16e, e)>>)

map_0x144(e) ==
    LET body == body_0x144(e)
    IN  IF body.ok THEN Writer(<<writeBytes(teaEncrypt(body.b, sig.tgtgt, e.rnd))>>)
        ELSE body

\* the keys of `map`
Tags == {\h01, \h08, \h16, \h18, \h1B, \h1D, \h1F, \h33, \h35, \h100, \h104, \h106,
         \h107, \h108, \h109, \h10a, \h112, \h116, \h124, \h128, \h141, \h142, \h143,
         \h144, \h145, \h147, \h154, \h16a, \h16e, \h174, \h177, \h17a, \h17c, \h187,
         \h188, \h191, \h193, \h194, \h197, \h198, \h202, \h400, \h401, \h511, \h516,
         \h521, \h525, \h523, \h52d, \h542, \h544, \h545, \h547, \h548}

\* map[tag].apply(this, args)
map(tag, a, e) ==
    CASE tag = \h01 -> map_0x01(e)
      [] tag = \h08 -> map_0x08
      [] tag = \h16 -> map_0x16
      [] tag = \h18 -> map_0x18
      [] tag = \h1B -> map_0x1B
      [] tag = \h1D -> map_0x1D
      [] tag = \h1F -> map_0x1F
      [] tag = \h33 -> map_0x33
      [] tag = \h35 -> map_0x35(a)
      [] tag = \h100 -> map_0x100(a)
      [] tag = \h104 -> map_0x104
      [] tag = \h106 -> map_0x106(a, e)
      [] tag = \h107 -> map_0x107
      [] tag = \h108 -> map_0x108
      [] tag = \h109 -> map_0x109
      [] tag = \h10a -> map_0x10a
      [] tag = \h112 -> map_0x112
      [] tag = \h116 -> map_0x116
      [] tag = \h124 -> map_0x124
      [] tag = \h128 -> map_0x128
      [] tag = \h141 -> map_0x141
      [] tag = \h142 -> map_0x142
      [] tag = \h143 -> map_0x143
      [] tag = \h144 -> map_0x144(e)
      [] tag = \h145 -> map_0x145
      [] tag = \h147 -> map_0x147
      [] tag = \h154 -> map_0x154
      [] tag = \h16a -> map_0x16a(a)
      [] tag = \h16e -> map_0x16e
      [] tag = \h174 -> map_0x174
      [] tag = \h177 -> map_0x177
      [] tag = \h17a -> map_0x17a
      [] tag = \h17c -> map_0x17c(a)
      [] tag = \h187 -> map_0x187
      [] tag = \h188 -> map_0x188
      [] tag = \h191 -> map_0x191
      [] tag = \h193 -> map_0x193(a)
      [] tag = \h194 -> map_0x194
      [] tag = \h197 -> map_0x197
      [] tag = \h198 -> map_0x198
      [] tag = \h202 -> map_0x202
      [] tag = \h400 -> map_0x400(e)
      [] tag = \h401 -> map_0x401(e)
      [] tag = \h511 -> map_0x511
      [] tag = \h516 -> map_0x516
      [] tag = \h521 -> map_0x521(a)
      [] tag = \h525 -> map_0x525
      [] tag = \h523 -> map_0x523
      [] tag = \h52d -> map_0x52d
      [] tag = \h542 -> map_0x542
      [] tag = \h544 -> map_0x544(a, e)
      [] tag = \h545 -> map_0x545(a)
      [] tag = \h547 -> map_0x547
      [] tag = \h548 -> map_0x548(e)

\* t.unshift(buf): buf goes before what the stream holds
unshift(t, buf) == buf \o t

\* Buffer.writeUInt16BE(v) on a 2-byte buffer: throws unless 0 <= v <= 0xFFFF
writeUInt16BE(v) == IF v \in 0..U16Max THEN Ok(U16BE(v)) ELSE Throw("RangeError")

\* the length field written modulo 2^16
packFrame_wrap(tag, t) ==
    IF ~t.ok THEN t
    ELSE Ok(unshift(unshift(t.b, U16BE(Len(t.b) % 65536)), U16BE(tag)))

\* lines 12-18 of packTlv: the length, then the tag, go before the payload
packFrame(tag, t) ==
    IF ~t.ok THEN t
    ELSE LET lbuf == writeUInt16BE(Len(t.b))
             tbuf == writeUInt16BE(tag)
         IN  IF ~lbuf.ok THEN lbuf
             ELSE IF ~tbuf.ok THEN tbuf
             ELSE Ok(unshift(unshift(t.b, lbuf.b), tbuf.b))

\* map[tag] of an absent key is undefined, and undefined.apply throws
packTlv_nodispatch(tag, a, e) ==
    IF tag \notin Tags THEN packFrame(tag, NewWriter)
    ELSE packFrame(tag, map(tag, a, e))

\* the two unshifts in the other order: length before tag
packTlv_swapped(tag, a, e) ==
    IF tag \notin Tags THEN Throw("TypeError")
    ELSE LET t == map(tag, a, e)
         IN  IF t.ok /\ Len(t.b) <= U16Max
             THEN Ok(unshift(unshift(t.b, U16BE(tag)), U16BE(Len(t.b))))
             ELSE packFrame(tag, t)

packTlv(tag, a, e) ==
    IF tag \notin Tags THEN Throw("TypeError")
    ELSE packFrame(tag, map(tag, a, e))

----------------------------------------------------------------------------
(* Sessions: what Init draws from *)

\* the session before login (no ticket held: BUF0, the cookie not yet set or
\* empty) and after it
Sessions ==
    <<[t104 |-> BUF0, tgtgt |-> Bytes(16), ksid |-> Undef, tgt |-> BUF0, d2 |-> BUF0,
       seq |-> 0, srm_token |-> BUF0, t174 |-> BUF0, t547 |-> BUF0],
      [t104 |-> BUF0, tgtgt |-> Bytes(16), ksid |-> Buf(BUF0), tgt |-> BUF0, d2 |-> BUF0,
       seq |-> 0, srm_token |-> BUF0, t174 |-> BUF0, t547 |-> BUF0],
      [t104 |-> Bytes(2), tgtgt |-> Bytes(16), ksid |-> Buf(<<107, 115, 105, 100>>),
       tgt |-> Bytes(MaxFill), d2 |-> Bytes(MaxFill), seq |-> 1, srm_token |-> Bytes(2),
       t174 |-> Bytes(1), t547 |-> Bytes(1)]>>

\* the profiles with a huge field are taken with the first session only
Starts == {<<p, s>> \in (1..Len(Profiles)) \X (1..Len(Sessions)) : p <= 4 \/ s = 1}

----------------------------------------------------------------------------
(* The inputs of a call *)

NoArgs == <<Undef, Undef, Undef>>

Clocks == {[lo |-> 17, hi |-> 25000, ms |-> 250],
           [lo |-> 0, hi |-> 32768, ms |-> 0],
           [lo |-> 65535, hi |-> 65536 + 40000, ms |-> 999]}

GoodSeed == <<1>> \o [i \in 1..(SeedLen - 1) |-> 0]

E1 == [now |-> [lo |-> 17, hi |-> 25000, ms |-> 250], rnd |-> 1, src |-> GoodSeed,
       draws |-> <<>>]
E2 == [now |-> [lo |-> 0, hi |-> 32768, ms |-> 0], rnd |-> 2, src |-> GoodSeed,
       draws |-> <<>>]

\* seeds as crypto.randomBytes(128) may return them: any first byte; a tail
\* that takes no carry, and one where adding 10000 carries into the first byte
Seeds == {<<f>> \o [i \in 1..(SeedLen - 1) |-> t] : f \in {0, 1, 254, 255}, t \in {0, 255}}

DrawBytes == {0, 255, 254}

RECURSIVE SeqsUpTo(_, _)
SeqsUpTo(S, n) ==
    IF n = 0 THEN {<<>>}
    ELSE LET r == SeqsUpTo(S, n - 1)
         IN  r \cup {Append(q, x) : q \in {q \in r : Len(q) = n - 1}, x \in S}

\* the entropy of a 0x548 call: the loop redraws exactly until a good byte
PowEntropy ==
    {[now |-> E1.now, rnd |-> 1, src |-> s, draws |-> d] :
        s \in Seeds,
        d \in {d \in SeqsUpTo(DrawBytes, MaxRedraw) :
                  \A i \in 1..Len(d) : GoodFirst(d[i]) <=> i = Len(d)}}

Entropy(tag) ==
    IF tag = \h548
    THEN {e \in PowEntropy : IF GoodFirst(e.src[1]) THEN e.draws = <<>> ELSE e.draws # <<>>}
    ELSE IF tag \in {\h01, \h106, \h144, \h400, \h401, \h544}
    THEN {[now |-> n, rnd |-> r, src |-> GoodSeed, draws |-> <<>>] :
              r \in {1, 2}, n \in Clocks}
    ELSE {E1, E2}

\* the argument lists a tag is called with, in a table: a call is recorded by
\* its tag and the row of its argument list
Short(n) == [i \in 1..(n + 1) |-> <<Str(Ascii(i - 1)), Undef, Undef>>]

ArgsOf(tag) ==
    CASE tag = \h35 -> <<<<Num(8), Undef, Undef>>>>
      [] tag = \h100 -> <<NoArgs, <<Num(0), Undef, Undef>>, <<Num(2), Undef, Undef>>>>
      [] tag = \h106 -> <<<<Buf(Bytes(16)), Undef, Undef>>>>
      [] tag = \h16a -> <<NoArgs, <<Buf(BUF0), Undef, Undef>>,
                         <<Buf(Bytes(MaxFill)), Undef, Undef>>>>
      [] tag = \h17c -> Short(MaxFill)
                        \o <<<<Str(HugeFit), Undef, Undef>>, <<Str(Huge), Undef, Undef>>>>
      [] tag = \h193 -> Short(MaxFill)
                        \o <<<<Str(HugeFit), Undef, Undef>>, <<Str(Huge), Undef, Undef>>,
                             <<Buf(Huge), Undef, Undef>>>>
      [] tag = \h521 -> <<<<Num(0), Undef, Undef>>, <<Num(6), Undef, Undef>>>>
      [] tag = \h544 -> <<<<Num(-1), Num(9), Buf(Bytes(16))>>, <<Num(-1), Num(9), Undef>>,
                         <<Num(2), Num(9), Undef>>, <<Num(0), Num(2), Undef>>,
                         <<Num(1), Num(9), Buf(Bytes(16))>>>>
      [] tag = \h545 -> <<NoArgs, <<Str(<<>>), Undef, Undef>>,
                         <<Str(Ascii(MaxFill)), Undef, Undef>>>>
      [] OTHER -> <<NoArgs>>

\* tag ids that are no key of `map`
OtherTags == {0, 2, \h155, \h549, \hFFFF}

----------------------------------------------------------------------------
(* State *)

NoCall == [e |-> E1, a |-> 1, tag |-> -1]
NoRet == [b |-> <<>>, ok |-> FALSE, err |-> "none"]
NoPrev == [ret |-> NoRet, ext |-> <<>>, e |-> E1, set |-> FALSE]

Procs == {1, 2}

\* the uids the calls are made for
Uids == {1, 2}

\* the client besides sig: stat.sent_msg_cnt, the events emitted, the requests
\* handed to the network, and the friend list fl (uid -> FriendInfo object,
\* 0 for none)
NoClient ==
    [sent_msg_cnt |-> 0, events |-> <<>>, wire |-> <<>>, fl |-> [u \in Uids |-> 0]]

\* a MessageRet: none
NoRand == [lo |-> 0, hi |-> 0]

NoMsgRet == [seq |-> 0, rand |-> NoRand, message_id |-> <<>>, time |-> 0]

\* the promise of an async call: pending, resolved with a value (a
\* MessageRet, or the file id of sendFile), or rejected with an error
NoRes == [err |-> "", code |-> Undef, msg |-> NoMsgRet, fid |-> <<>>, state |-> "pending"]

\* the frame of an async call of friend.ts: the call it belongs to, the
\* function, the await it is suspended at, its locals seq, rand and
\* rsp1700[110], and its promise; none running
NoFrame ==
    [id |-> 0, seq |-> 0, rand |-> NoRand, fn |-> "none", at |-> "idle", skip |-> FALSE,
     res |-> NoRes, uid |-> 0]

\* the objects allocated: the number of FriendInfo objects, and the Friend
\* instances constructed (each with its uid and its info)
NoHeap == [infos |-> 0, friends |-> <<>>, calls |-> <<>>]

Init ==
    /\ \E st \in Starts :
          /\ profile = st[1]
          /\ sig = Sessions[st[2]]
    /\ call = NoCall
    /\ ret = NoRet
    /\ ext = <<>>
    /\ prev = NoPrev
    /\ pc = [p \in Procs |-> "idle"]
    /\ lseq = [p \in Procs |-> 0]
    /\ pseq = [p \in Procs |-> 0]
    /\ client = NoClient
    /\ run = [p \in Procs |-> NoFrame]
    /\ weakmap = <<>>
    /\ heap = NoHeap

\* the calls an encoder makes to the collaborators the client is given: the
\* signer and the proof-of-work solver
ExtCalls(tag, a, e) ==
    CASE tag = \h548 ->
            <<[fn |-> "calcPoW", arg |-> PowChallenge(PowSeed(e.src, e.draws)).b]>>
      [] tag = \h544 /\ a[1].n # -1 ->
            <<[fn |-> "sign", arg |-> salt_0x544(a[1].n, a[2].n).b]>>
      [] OTHER -> <<>>

\* tag 0x154 taking the next sequence number instead of peeking at it
SigAfter_consume(tag, s) == IF tag = \h154 THEN [s EXCEPT !.seq = s.seq + 1] ELSE s

\* what a call of an encoder leaves of the session: no encoder assigns to a
\* field of this.sig
SigAfter(tag, s) == s

\* the argument list of the call
args == ArgsOf(call.tag)[call.a]

\* the handshake driver calls t(tag, ...args), t = getPacker(c), with the
\* argument list of row a
Pack(tag, a, e) ==
    /\ call = NoCall
    /\ call' = [e |-> e, a |-> a, tag |-> tag]
    /\ ret' = packTlv(tag, ArgsOf(tag)[a], e)
    /\ ext' = IF tag \in Tags THEN ExtCalls(tag, ArgsOf(tag)[a], e) ELSE <<>>
    /\ sig' = SigAfter(tag, sig)
    /\ prev' = NoPrev
    /\ UNCHANGED <<client, run, weakmap, heap, profile, pc, lseq, pseq>>

\* the driver makes the same call again, with the clock and the random source
\* giving what they give then
Repeat(e) ==
    /\ call # NoCall
    /\ ~prev.set
    /\ prev' = [ret |-> ret, ext |-> ext, e |-> call.e, set |-> TRUE]
    /\ call' = [call EXCEPT !.e = e]
    /\ ret' = packTlv(call.tag, args, e)
    /\ ext' = IF call.tag \in Tags THEN ExtCalls(call.tag, args, e) ELSE <<>>
    /\ sig' = SigAfter(call.tag, sig)
    /\ UNCHANGED <<client, run, weakmap, heap, profile, pc, lseq, pseq>>

\* the driver takes the block (or the exception)
Return ==
    /\ call # NoCall
    /\ call' = NoCall
    /\ ret' = NoRet
    /\ ext' = <<>>
    /\ prev' = NoPrev
    /\ UNCHANGED <<client, run, weakmap, heap, profile, sig, pc, lseq, pseq>>

\* the owner of the session advances the sequence counter
NextSeq ==
    /\ call = NoCall
    /\ sig.seq < MaxSeq
    /\ sig' = [sig EXCEPT !.seq = sig.seq + 1]
    /\ UNCHANGED <<client, run, weakmap, heap, profile, call, ret, ext, prev, pc, lseq, pseq>>

PackAny ==
    \E tag \in Tags \cup OtherTags : \E a \in DOMAIN ArgsOf(tag) : \E e \in Entropy(tag) :
        Pack(tag, a, e)

RepeatAny == \E e \in {call.e, IF call.e = E1 THEN E2 ELSE E1} : Repeat(e)

Next == PackAny \/ RepeatAny \/ Return \/ NextSeq

Spec == Init /\ [][Next]_vars

----------------------------------------------------------------------------
(* Properties of the packer *)

Called == call # NoCall

\* the payload the encoder of the call returned
Payload == map(call.tag, args, call.e)

\* a call of a registered tag whose encoder returned a payload
Encoded == Called /\ call.tag \in Tags /\ Payload.ok

Block(tag, payload) == U16BE(tag) \o U16BE(Len(payload)) \o payload

\* C1, as stated: for every registered tag and every argument list for which
\* the encoder returns a payload, pack returns tag (2 bytes, big-endian), then
\* the payload's length (2 bytes, big-endian), then the payload: 4 +
\* payload.length bytes.
C1_AnyPayload ==
    Encoded =>
        /\ ret.ok
        /\ Len(ret.b) = 4 + Len(Payload.b)
        /\ ReadU16BE(ret.b, 0) = call.tag
        /\ ReadU16BE(ret.b, 2) = Len(Payload.b)
        /\ SubSeq(ret.b, 5, Len(ret.b)) = Payload.b

\* C1, amended: the same for every payload of at most 0xFFFF bytes (a longer
\* payload has no 2-byte length, and pack throws).
C1_Framed ==
    Encoded /\ Len(Payload.b) <= U16Max =>
        /\ ret.ok
        /\ Len(ret.b) = 4 + Len(Payload.b)
        /\ ReadU16BE(ret.b, 0) = call.tag
        /\ ReadU16BE(ret.b, 2) = Len(Payload.b)
        /\ SubSeq(ret.b, 5, Len(ret.b)) = Payload.b
        /\ ret.b = Block(call.tag, Payload.b)

\* a block with the longest payload a length field can state has been returned
C1_Witness == Encoded /\ ret.ok /\ Len(ret.b) = 4 + U16Max /\ call.tag = \h16e

\* C2: a call with a tag id that is no key of the registry fails (the lookup
\* yields undefined and the call on it throws: the UnknownTagError of the
\* design) and returns no bytes.
C2_UnknownTag ==
    Called /\ call.tag \notin Tags => ~ret.ok /\ ret.b = <<>> /\ ret.err = "TypeError"

C2_Witness == Called /\ call.tag = \h155 /\ ~ret.ok

\* the uncapped inputs of the call make its payload, or a length-prefixed
\* field of it, longer than 0xFFFF bytes
TooLong ==
    \/ call.tag \in {\h16e, \h144} /\ Len(Utf8(device.model)) > U16Max
    \/ call.tag = \h141 /\ 6 + Len(Utf8(device.sim)) + Len(Utf8(device.apn)) > U16Max
    \/ call.tag = \h193 /\ Len(BytesOf(args[1])) > U16Max
    \/ call.tag = \h17c /\ 2 + Len(BytesOf(args[1])) > U16Max

\* C3: every block returned has a payload of at most 0xFFFF bytes and a
\* length field equal to the payload's true length; when an uncapped input
\* makes the payload or a length-prefixed field longer than 0xFFFF bytes the
\* call fails (the range check of the 16-bit write throws: the
\* EncodingConstraintViolation of the design) and returns no block.
C3_LengthLimit ==
    Called /\ call.tag \in Tags =>
        /\ ret.ok => /\ Len(ret.b) - 4 <= U16Max
                     /\ ReadU16BE(ret.b, 2) = Len(ret.b) - 4
        /\ TooLong => ~ret.ok /\ ret.b = <<>> /\ ret.err = "RangeError"
        /\ Payload.ok /\ Len(Payload.b) > U16Max => ~ret.ok /\ ret.err = "RangeError"

C3_Witness ==
    Called /\ call.tag = \h16e /\ Len(Utf8(device.model)) = U16Max + 1 /\ ~ret.ok

\* a pack call has just been made
PackStep == call' # call /\ call' # NoCall

\* C4: a pack call, of any tag, after any calls, leaves every field of sig as
\* it was; packing tag 0x154 writes sig.seq + 1 as a 4-byte integer and
\* leaves sig.seq at its value.
C4_SigUnchanged ==
    [][PackStep =>
          /\ sig' = sig
          /\ call'.tag = \h154 =>
                /\ ret'.ok
                /\ ret'.b = <<1, 84, 0, 4>> \o U32BE(sig.seq + 1)
                /\ sig'.seq = sig.seq]_vars

C4_Witness == call.tag = \h154 /\ ret.ok /\ sig.seq = MaxSeq /\ prev.set

----------------------------------------------------------------------------
(* Requests of one session that read sig.seq + 1: User._sendMsg and
   User.thumbUp of friend.ts, and the handshake's tag 0x154. A request runs
   up to its await in one turn of the event loop; what follows the await
   runs in a later turn, when the response has arrived. *)

ReadU32BE(b, off) == ReadU16BE(b, off) * 65536 + ReadU16BE(b, off + 2)

InitSend ==
    /\ profile = 1
    /\ sig \in {Sessions[1], Sessions[3]}
    /\ call = NoCall
    /\ ret = NoRet
    /\ ext = <<>>
    /\ prev = NoPrev
    /\ pc = [p \in Procs |-> "idle"]
    /\ lseq = [p \in Procs |-> 0]
    /\ pseq = [p \in Procs |-> 0]
    /\ client = NoClient
    /\ run = [p \in Procs |-> NoFrame]
    /\ weakmap = <<>>
    /\ heap = NoHeap

\* this.c.sendUni(cmd, body): the session builds the packet and advances the
\* counter for it before it returns the promise the caller awaits
sendUni(s) == [s EXCEPT !.seq = s.seq + 1]

\* a request that has read `peek` calls sendUni in the same turn and awaits
Request(p, kind, peek) ==
    /\ pc[p] = "idle"
    /\ sig.seq < MaxSend
    /\ lseq' = [lseq EXCEPT ![p] = peek]
    /\ sig' = sendUni(sig)
    /\ pseq' = [pseq EXCEPT ![p] = sig'.seq]
    /\ pc' = [pc EXCEPT ![p] = kind]
    /\ UNCHANGED <<client, run, weakmap, heap, profile, call, ret, ext, prev>>

\* the response has arrived: the request's continuation runs and returns
Resume(p, kind) ==
    /\ pc[p] = kind
    /\ pc' = [pc EXCEPT ![p] = "idle"]
    /\ lseq' = [lseq EXCEPT ![p] = 0]
    /\ pseq' = [pseq EXCEPT ![p] = 0]
    /\ UNCHANGED <<client, run, weakmap, heap, profile, sig, call, ret, ext, prev>>

\* _sendMsg giving up its turn between reading the counter and sendUni
SendMsgCall_await(p) ==
    /\ pc[p] = "idle"
    /\ sig.seq < MaxSend
    /\ lseq' = [lseq EXCEPT ![p] = sig.seq + 1]
    /\ pc' = [pc EXCEPT ![p] = "sendMsg"]
    /\ UNCHANGED <<client, run, weakmap, heap, profile, sig, call, ret, ext, prev, pseq>>

\* const seq = this.c.sig.seq + 1 ... await this.c.sendUni("MessageSvc.PbSendMsg", body)
SendMsgCall(p) == Request(p, "sendMsg", sig.seq + 1)

\* the rest of _sendMsg: decode, count, emit 'send'
SendMsgResume(p) == Resume(p, "sendMsg")

\* ReqFavorite built with this.c.sig.seq + 1, then await this.c.sendUni
ThumbUpCall(p) == Request(p, "thumbUp", sig.seq + 1)

ThumbUpResume(p) == Resume(p, "thumbUp")

\* the handshake packs tag 0x154 into the packet it then sends
LoginCall(p) == Request(p, "login", ReadU32BE(map_0x154.b, 0))

LoginResume(p) == Resume(p, "login")

\* a request that does not read the counter (getAddFriendSetting, ...)
OtherCall(p) == Request(p, "other", 0)

OtherResume(p) == Resume(p, "other")

NextSend ==
    \E p \in Procs :
        \/ SendMsgCall(p) \/ SendMsgResume(p)
        \/ ThumbUpCall(p) \/ ThumbUpResume(p)
        \/ LoginCall(p) \/ LoginResume(p)
        \/ OtherCall(p) \/ OtherResume(p)

SpecSend == InitSend /\ [][NextSend]_vars

\* the request of p has read the counter and its response has not arrived
InFlight(p) == pc[p] \in {"sendMsg", "thumbUp", "login"}

----------------------------------------------------------------------------
(* Properties of the encoders *)

\* a length-prefixed field holding b
Lv(b) == U16BE(Len(b)) \o b

\* a capped field as the design states it: the encoded bytes of the input,
\* cut to the cap
Capped(s, cap) == Lv(Take(Utf8(s), cap))

\* the capped encoders' payloads with every capped field cut to its cap in
\* bytes
CappedPayload(tag) ==
    CASE tag = \h124 ->
            Capped(device.os_type, 16) \o Capped(device.version.release, 16)
            \o U16BE(2) \o Capped(device.sim, 16) \o U16BE(0) \o Capped(device.apn, 16)
      [] tag = \h128 ->
            <<0, 0, 0, 1, 0>> \o U32BE(16777216) \o Capped(device.model, 32)
            \o Lv(Take(device.guid, 16)) \o Capped(device.brand, 16)
      [] tag = \h202 ->
            Capped(device.wifi_bssid, 16) \o Capped(device.wifi_ssid, 32)
      [] tag = \h142 -> U16BE(0) \o Capped(apk.id, 32)

CappedTags == {\h124, \h128, \h202, \h142}

\* C6: in tags 0x124, 0x128, 0x202 and 0x142 every capped field (os_type,
\* version.release, sim, apn, brand, wifi_bssid at 16 bytes; model, wifi_ssid,
\* apk.id at 32 bytes) whose encoded form is longer than the cap is written
\* as exactly the first cap bytes of the encoded form, and a field not longer
\* than the cap is written whole.
C6_CappedFields ==
    Called /\ call.tag \in CappedTags /\ ret.ok =>
        ret.b = Block(call.tag, CappedPayload(call.tag))

\* a call of tag 0x128 for a model of 12 characters of 3 bytes each: 36
\* bytes against the cap of 32
C6_Witness ==
    Called /\ call.tag = \h128 /\ ret.ok /\ device.model = Cjk(12)
    /\ Len(Utf8(device.model)) = 36

\* the challenge handed to the solver by the call of tag 0x548
Challenge == ext[1].arg

\* the seed and the digest the challenge carries: after the 8 header bytes of
\* the copy, a length-prefixed seed and a length-prefixed digest
ChSeed == SubSeq(Challenge, 11, 10 + ReadU16BE(Challenge, 8))
ChDigest ==
    SubSeq(Challenge, 13 + Len(ChSeed),
           12 + Len(ChSeed) + ReadU16BE(Challenge, 10 + Len(ChSeed)))

PowCalled == Called /\ call.tag = \h548 /\ ret.ok /\ Len(ext) = 1

\* b as a big-endian integer of w bytes: zeros in front
PadBE(b, w) == [i \in 1..(w - Len(b)) |-> 0] \o b

\* b + k as a big-endian integer of the width of b, for 0 <= k < 65536: the
\* last two bytes take the sum, the carry runs up to the last byte that is
\* not 255 (and is lost when there is none)
AddBE(b, k) ==
    LET w == Len(b)
        s == b[w - 1] * 256 + b[w] + k
        up == SubSeq(b, 1, w - 2)
        nf == {i \in 1..(w - 2) : up[i] # 255}
        p == IF nf = {} THEN 0 ELSE CHOOSE i \in nf : \A j \in nf : j <= i
    IN  (IF s < 65536 THEN up
         ELSE [i \in 1..(w - 2) |->
                  IF i < p THEN up[i] ELSE IF i = p THEN up[i] + 1 ELSE 0])
        \o U16BE(s % 65536)

\* C7, as stated: the target is the seed read as a big-endian integer plus
\* 10000, as a big-endian byte string of 256 bytes, and the digest in the
\* challenge is the SHA-256 of exactly that target.
C7_Target256 ==
    PowCalled =>
        /\ Len(PowDst(ChSeed)) = PadHex
        /\ PowDst(ChSeed) = AddBE(PadBE(ChSeed, PadHex), PowCnt)
        /\ ChDigest = sha256(AddBE(PadBE(ChSeed, PadHex), PowCnt))

\* C7, amended: the target is the seed plus 10000 as a big-endian byte
\* string of 128 bytes (256 hexadecimal digits), the digest in the challenge
\* is the SHA-256 of exactly that target, and two calls with the same seed
\* carry the same digest.
C7_Target ==
    PowCalled =>
        /\ Len(ChSeed) = SeedLen
        /\ PowDst(ChSeed) = AddBE(ChSeed, PowCnt)
        /\ Len(ChDigest) = 32
        /\ ChDigest = sha256(AddBE(ChSeed, PowCnt))
        /\ prev.set /\ Len(prev.ext) = 1
             /\ SubSeq(prev.ext[1].arg, 11, 10 + SeedLen) = ChSeed
           => SubSeq(prev.ext[1].arg, 13 + SeedLen, 44 + SeedLen) = ChDigest

\* a seed whose sum carries out of the last two bytes, packed twice
C7_Witness ==
    PowCalled /\ prev.set /\ call.e = prev.e
    /\ ChSeed[1] = 1 /\ ChSeed[SeedLen] = 255 /\ PowDst(ChSeed)[1] = 2

\* C8: the seed in the challenge of tag 0x548 has a first byte that is neither
\* 0x00 nor 0xFF, and for it seed + 10000 fits the target's width: the sum has
\* no more than 256 hexadecimal digits (no overflow, nothing cut off), and
\* the target always has the seed's 128 bytes.
C8_NoOverflow ==
    PowCalled =>
        /\ GoodFirst(ChSeed[1])
        /\ ChSeed = PowSeed(call.e.src, call.e.draws)
        /\ Len(BigAdd(BigIntOfHex(toHex(ChSeed)), PowCnt)) <= PadHex
        /\ Len(PowDst(ChSeed)) = SeedLen
        /\ PowDst(ChSeed)[1] >= ChSeed[1]

\* the first byte drawn was 0xFF and was drawn again, twice; the sum carries
\* into the first byte kept
C8_Witness ==
    PowCalled /\ call.e.src[1] = 255 /\ Len(call.e.draws) = MaxRedraw
    /\ ChSeed[1] = 254 /\ PowDst(ChSeed)[1] = 255

\* the tags whose encoder draws random bytes or reads the clock
Drawing(tag, a) ==
    \/ tag \in {\h01, \h106, \h144, \h400, \h401, \h548}
    \/ tag = \h544 /\ a[1].n # -1

NoCookie == sig.ksid.t = "undefined" \/ sig.ksid.v = <<>>

\* C10: packing tag 0x108 without a session cookie (sig.ksid absent or of
\* zero length) gives the payload "|" + imei + "|" + appName; with a
\* non-empty cookie the payload is the cookie's bytes.
C10_SessionId ==
    Called /\ call.tag = \h108 /\ ret.ok =>
        ret.b = Block(\h108,
                    IF NoCookie THEN Utf8(S_bar \o device.imei \o S_bar \o apk.name)
                    ELSE sig.ksid.v)

\* tag 0x108 packed for a session whose cookie is a zero-length Buffer
C10_Witness ==
    Called /\ call.tag = \h108 /\ ret.ok /\ sig.ksid = Buf(BUF0)

\* the salts of the design: variant A is the account id, the device id, the
\* SDK version and the sub-command; variant B a zero placeholder, the device
\* id, the SDK version, the sub-command and a zero
SaltA(subCmd) ==
    U64BE(uin) \o Lv(device.guid) \o Lv(Utf8(apk.sdkver)) \o U32BE(subCmd)

SaltB(subCmd) ==
    U32BE(0) \o Lv(device.guid) \o Lv(Utf8(apk.sdkver)) \o U32BE(subCmd) \o U32BE(0)

\* C11: packing tag 0x544 with version -1 and supplied signature bytes
\* returns exactly those bytes as the payload and calls no signer (no salt
\* reaches it); with any other version the signer is called exactly once,
\* with the salt of variant B when the version is 2 and of variant A
\* otherwise, and the payload is what the signer returns.
C11_SaltedSignature ==
    Called /\ call.tag = \h544 =>
        IF args[1].n = -1
        THEN /\ ext = <<>>
             /\ args[3].t = "buffer" => ret.ok /\ ret.b = Block(\h544, args[3].v)
        ELSE /\ Len(ext) = 1
             /\ ext[1].fn = "sign"
             /\ ext[1].arg = IF args[1].n = 2 THEN SaltB(args[2].n) ELSE SaltA(args[2].n)
             /\ ret.ok
             /\ ret.b = Block(\h544, sign(call.e.now, ext[1].arg))

\* version -1 with a signature of 16 bytes: passed through, no signer call
C11_Witness ==
    Called /\ call.tag = \h544 /\ args[1].n = -1 /\ Len(args[3].v) = 16
    /\ ret.ok /\ Len(ret.b) = 20 /\ ext = <<>>

\* the payload of the block returned
RetPayload == SubSeq(ret.b, 5, Len(ret.b))

RECURSIVE EntryOff(_, _)
\* where the k-th entry of the payload b of tag 0x511 starts, walking from
\* the count by each entry's marker byte and length field; -1 when an
\* earlier entry has no 0x01 marker or runs past the end of b
EntryOff(b, k) ==
    IF k = 1 THEN 2
    ELSE LET o == EntryOff(b, k - 1)
         IN  IF o < 0 \/ o + 3 > Len(b) THEN -1
             ELSE IF b[o + 1] # 1 \/ o + 3 + ReadU16BE(b, o + 1) > Len(b) THEN -1
             ELSE o + 3 + ReadU16BE(b, o + 1)

\* the domain string of the k-th entry
EntryStr(b, k) ==
    SubSeq(b, EntryOff(b, k) + 4, EntryOff(b, k) + 3 + ReadU16BE(b, EntryOff(b, k) + 1))

\* C12: the payload of tag 0x511 is a 2-byte count equal to the number of
\* enabled domains, then exactly that many entries, each a 0x01 byte and a
\* length-prefixed domain string, no domain twice, nothing after the last
\* entry, and the same bytes on every call.
C12_Domains ==
    Called /\ call.tag = \h511 =>
        /\ ret.ok
        /\ ReadU16BE(RetPayload, 0) = EnabledDomains
        /\ EntryOff(RetPayload, EnabledDomains + 1) = Len(RetPayload)
        /\ \A k \in 1..EnabledDomains :
              /\ EntryStr(RetPayload, k) = domains[k]
              /\ \A j \in 1..EnabledDomains :
                    j # k => EntryStr(RetPayload, j) # EntryStr(RetPayload, k)
        /\ prev.set => ret = prev.ret

\* tag 0x511 packed twice, at different times
C12_Witness ==
    Called /\ call.tag = \h511 /\ ret.ok /\ prev.set /\ call.e # prev.e
    /\ EntryOff(RetPayload, EnabledDomains + 1) = Len(RetPayload)

\* the plaintext tag 0x144 hands to the cipher in the call
Plain144 == body_0x144(call.e)

\* the tags of the inner blocks of tag 0x144, in order
InnerTags == <<\h109, \h52d, \h124, \h128, \h16e>>

RECURSIVE TlvOff(_, _)
\* where the k-th block of a counted TLV stream b starts, walking from the
\* count by each block's own length field; -1 when an earlier block has no
\* whole header or runs past the end of b
TlvOff(b, k) ==
    IF k = 1 THEN 2
    ELSE LET o == TlvOff(b, k - 1)
         IN  IF o < 0 \/ o + 4 > Len(b) THEN -1
             ELSE IF o + 4 + ReadU16BE(b, o + 2) > Len(b) THEN -1
             ELSE o + 4 + ReadU16BE(b, o + 2)

\* C13: whenever the five inner packs of tag 0x144 succeed, the plaintext it
\* encrypts under sig.tgtgt is the count 5 and then five well-formed blocks,
\* of tags 0x109, 0x52d, 0x124, 0x128 and 0x16e in this order: the walk by
\* the blocks' length fields meets these tags and ends at the end of the
\* plaintext; the payload returned decrypts to this plaintext.
C13_InnerStream ==
    Called /\ call.tag = \h144 /\ Plain144.ok =>
        /\ ReadU16BE(Plain144.b, 0) = Len(InnerTags)
        /\ TlvOff(Plain144.b, Len(InnerTags) + 1) = Len(Plain144.b)
        /\ \A k \in 1..Len(InnerTags) :
              /\ TlvOff(Plain144.b, k) >= 0
              /\ ReadU16BE(Plain144.b, TlvOff(Plain144.b, k)) = InnerTags[k]
        /\ ret.ok => teaDecrypt(RetPayload, sig.tgtgt) = Plain144.b

\* tag 0x144 packed for the profile whose capped fields hold characters of
\* more than one byte
C13_Witness ==
    Called /\ call.tag = \h144 /\ ret.ok /\ Plain144.ok /\ device = WideDevice
    /\ TlvOff(Plain144.b, 6) = Len(Plain144.b)

\* floor(now_ms / 1000) modulo 2^32, big-endian: the seconds are
\* hi * 65536 + lo
TimeBE(now) == U16BE(now.hi % 65536) \o U16BE(now.lo)

\* the tags with a time field
TimeTags == {\h01, \h106, \h400}

\* the 4 bytes of the time field in what the call returned: in the payload
\* of tag 0x01 after the ip version, the random bytes and the account id; in
\* the decrypted payload of tag 0x106 after the version, the random bytes,
\* three 4-byte fields and the account id; in the payload of tag 0x400
\* after the version, the account id, the guid, the random bytes and two
\* 4-byte fields
TimeField ==
    CASE call.tag = \h01 -> SubSeq(RetPayload, 11, 14)
      [] call.tag = \h106 ->
            SubSeq(teaDecrypt(RetPayload,
                              md5(args[1].v \o <<0, 0, 0, 0>> \o U32BE(uin))), 27, 30)
      [] call.tag = \h400 ->
            SubSeq(RetPayload, 35 + Len(device.guid), 38 + Len(device.guid))

\* C14: in tags 0x01, 0x106 and 0x400 the call succeeds and the 4-byte time
\* field is floor(now_ms / 1000) modulo 2^32, big-endian, for every clock
\* value, those of 2^31 seconds and more included.
C14_TimeField ==
    Called /\ call.tag \in TimeTags =>
        /\ ret.ok
        /\ TimeField = TimeBE(call.e.now)

\* tag 0x400 packed at a time of 2^32 seconds and more whose low 32 bits
\* have the top bit set
C14_Witness ==
    Called /\ call.tag = \h400 /\ ret.ok /\ call.e.now.hi >= 65536
    /\ TimeField[1] >= 128

----------------------------------------------------------------------------
(* friend.ts: User._sendMsg and Friend.sendFile. An async function runs up
   to an await in one turn of the event loop and goes on in a later turn,
   when the awaited promise has settled. client.wire is the record of what
   each call handed to the network and of what came back, in order. *)

\* the calls started in one behaviour
MaxCalls == 2

\* randomBytes(4).readUInt32BE(): 32 bits, kept as two 16-bit words
Rands == {[lo |-> 7, hi |-> 1], [lo |-> 65535, hi |-> 40000]}

RandBE(r) == U16BE(r.hi) \o U16BE(r.lo)

\* rsp[1] and rsp[3] of the decoded PbSendMsg response
MsgRsps == {[time |-> 1000, code |-> k] : k \in {Num(0), Num(120)}}

\* rsp1700 = pb.decode(payload)[19]: the code [10], the file id [90] and the
\* upload key [220] present or not, [110] set when the server holds the file
Rsps1700 ==
    {[code |-> Num(0), has90 |-> TRUE, has220 |-> TRUE, flag110 |-> FALSE],
     [code |-> Num(0), has90 |-> TRUE, has220 |-> FALSE, flag110 |-> TRUE],
     [code |-> Num(0), has90 |-> TRUE, has220 |-> FALSE, flag110 |-> FALSE],
     [code |-> Num(0), has90 |-> FALSE, has220 |-> TRUE, flag110 |-> FALSE],
     [code |-> Num(5), has90 |-> TRUE, has220 |-> TRUE, flag110 |-> TRUE]}

\* rsp1700[90].toBuffer()
Fid == <<47, 102>>

\* Buffer.toString("base64"): the characters by their index in the
\* alphabet, 64 for the padding
RECURSIVE Base64(_)
Base64(b) ==
    IF Len(b) = 0 THEN <<>>
    ELSE IF Len(b) = 1 THEN <<b[1] \div 4, (b[1] % 4) * 16, 64, 64>>
    ELSE IF Len(b) = 2
    THEN <<b[1] \div 4, (b[1] % 4) * 16 + b[2] \div 16, (b[2] % 16) * 4, 64>>
    ELSE <<b[1] \div 4, (b[1] % 4) * 16 + b[2] \div 16,
           (b[2] % 16) * 4 + b[3] \div 64, b[3] % 64>>
         \o Base64(SubSeq(b, 4, Len(b)))

\* genDmMessageId(uid, seq, rand, time, flag)
genDmMessageId(uid, seq, rand, time, flag) ==
    Base64(U32BE(uid) \o I32BE(seq) \o RandBE(rand) \o U32BE(time) \o <<flag>>)

\* what a call hands to the network, and what comes back
Req(id, cmd, seq, rand) ==
    [id |-> id, seq |-> seq, rand |-> rand, code |-> Undef, skip |-> FALSE, cmd |-> cmd,
     dir |-> "req"]

Rsp(id, cmd, code, skip) ==
    [id |-> id, seq |-> 0, rand |-> NoRand, code |-> code, skip |-> skip, cmd |-> cmd,
     dir |-> "rsp"]

Err(id, cmd) ==
    [id |-> id, seq |-> 0, rand |-> NoRand, code |-> Undef, skip |-> FALSE, cmd |-> cmd,
     dir |-> "err"]

\* the requests an await stands for
CmdAt(at) ==
    CASE at = "a1700" -> "OfflineFilleHandleSvr.pb_ftn_CMD_REQ_APPLY_UPLOAD_V3-1700"
      [] at = "upload" -> "highwayHttpUpload"
      [] at = "a800" -> "OfflineFilleHandleSvr.pb_ftn_CMD_REQ_UPLOAD_SUCC-800"
      [] at = "msg" -> "MessageSvc.PbSendMsg"

\* a call of a method of friend.ts begins
Open(id, fn) ==
    [id |-> id, seq |-> 0, rand |-> NoRand, code |-> Undef, skip |-> FALSE, cmd |-> fn,
     dir |-> "open"]

CallsStarted == Len(client.wire)

\* the record of the call id grows by the entries es
Put(id, es) ==
    IF id > Len(client.wire)
    THEN Append(client.wire, es)
    ELSE [client.wire EXCEPT ![id] = @ \o es]

\* the promise settles: the function has returned or thrown
Resolve(p, msg, fid) ==
    [run EXCEPT ![p].at = "done",
                ![p].res = [err |-> "", code |-> Undef, msg |-> msg, fid |-> fid,
                            state |-> "resolved"]]

Reject(p, err, code) ==
    [run EXCEPT ![p].at = "done",
                ![p].res = [err |-> err, code |-> code, msg |-> NoMsgRet, fid |-> <<>>,
                            state |-> "rejected"]]

InitMsg ==
    /\ profile = 1
    /\ sig = Sessions[3]
    /\ call = NoCall
    /\ ret = NoRet
    /\ ext = <<>>
    /\ prev = NoPrev
    /\ pc = [p \in Procs |-> "idle"]
    /\ lseq = [p \in Procs |-> 0]
    /\ pseq = [p \in Procs |-> 0]
    /\ client = NoClient
    /\ run = [p \in Procs |-> NoFrame]
    /\ weakmap = <<>>
    /\ heap = NoHeap

\* the caller p has no call running: none made yet, or the last one settled
Free(p) == run[p].at \in {"idle", "done"}

\* the callers are alike: of those that are free, the first makes the next call
Turn(p) == Free(p) /\ \A q \in Procs : q < p => ~Free(q)

\* a method is called: a frame for it, suspended nowhere yet
Enter(uid, fn) ==
    [id |-> CallsStarted + 1, seq |-> 0, rand |-> NoRand, fn |-> fn, at |-> "idle",
     skip |-> FALSE, res |-> NoRes, uid |-> uid]

\* _sendMsg up to its await, in the frame f: const seq = this.c.sig.seq + 1,
\* const rand = randomBytes(4).readUInt32BE(), the body with 4: seq and
\* 5: rand, this.c.sendUni("MessageSvc.PbSendMsg", body)
sendMsgBody(p, f, rand, log) ==
    /\ sig' = sendUni(sig)
    /\ run' = [run EXCEPT ![p] = [f EXCEPT !.seq = sig.seq + 1, !.rand = rand, !.at = "msg"]]
    /\ client' = [client EXCEPT
                    !.wire = Put(f.id, log \o <<Req(f.id, CmdAt("msg"), sig.seq + 1, rand)>>)]

\* sendMsg calls _sendMsg
SendMsg(p, uid, rand) ==
    /\ Turn(p)
    /\ CallsStarted < MaxCalls
    /\ sendMsgBody(p, Enter(uid, "sendMsg"), rand, <<Open(CallsStarted + 1, "sendMsg")>>)
    /\ UNCHANGED <<weakmap, heap, profile, call, ret, ext, prev, pc, lseq, pseq>>

\* _sendMsg reading this.c.sig.seq + 1 again after the await
SendMsgRsp_reread(p, rsp) ==
    /\ run[p].at = "msg"
    /\ LET f == [run[p] EXCEPT !.seq = sig.seq + 1]
           messageRet ==
               [seq |-> f.seq, rand |-> f.rand,
                message_id |-> genDmMessageId(f.uid, f.seq, f.rand, rsp.time, 1),
                time |-> rsp.time]
           log == Put(f.id, <<Rsp(f.id, CmdAt("msg"), rsp.code, FALSE)>>)
       IN IF rsp.code # Num(0)
          THEN /\ run' = Reject(p, "ApiRejection", rsp.code)
               /\ client' = [client EXCEPT !.wire = log]
          ELSE /\ client' = [client EXCEPT
                               !.sent_msg_cnt = @ + 1,
                               !.events = Append(@, [data |-> messageRet, name |-> "send"]),
                               !.wire = log]
               /\ run' = IF f.fn = "sendFile"
                         THEN Resolve(p, NoMsgRet, Fid)
                         ELSE Resolve(p, messageRet, <<>>)
    /\ UNCHANGED <<weakmap, heap, profile, sig, call, ret, ext, prev, pc, lseq, pseq>>

\* the rest of _sendMsg, the response decoded into rsp: drop(rsp[1], rsp[2])
\* unless rsp[1] is 0, then the count, the message id, the 'send' event and
\* the return. sendFile returns String(fid) once its _sendMsg has returned.
SendMsgRsp(p, rsp) ==
    /\ run[p].at = "msg"
    /\ LET f == run[p]
           messageRet ==
               [seq |-> f.seq, rand |-> f.rand,
                message_id |-> genDmMessageId(f.uid, f.seq, f.rand, rsp.time, 1),
                time |-> rsp.time]
           log == Put(f.id, <<Rsp(f.id, CmdAt("msg"), rsp.code, FALSE)>>)
       IN IF rsp.code # Num(0)
          THEN /\ run' = Reject(p, "ApiRejection", rsp.code)
               /\ client' = [client EXCEPT !.wire = log]
          ELSE /\ client' = [client EXCEPT
                               !.sent_msg_cnt = @ + 1,
                               !.events = Append(@, [data |-> messageRet, name |-> "send"]),
                               !.wire = log]
               /\ run' = IF f.fn = "sendFile"
                         THEN Resolve(p, NoMsgRet, Fid)
                         ELSE Resolve(p, messageRet, <<>>)
    /\ UNCHANGED <<weakmap, heap, profile, sig, call, ret, ext, prev, pc, lseq, pseq>>

\* const rsp1700 = ... await this.c.sendUni(...1700, body1700)
apply1700(p, f, log) ==
    /\ sig' = sendUni(sig)
    /\ run' = [run EXCEPT ![p] = [f EXCEPT !.at = "a1700"]]
    /\ client' = [client EXCEPT
                    !.wire = Put(f.id, log \o <<Req(f.id, CmdAt("a1700"), 0, NoRand)>>)]

\* await this.c.sendUni(...800, body800)
success800(p, f, log) ==
    /\ sig' = sendUni(sig)
    /\ run' = [run EXCEPT ![p] = [f EXCEPT !.at = "a800"]]
    /\ client' = [client EXCEPT
                    !.wire = Put(f.id, log \o <<Req(f.id, CmdAt("a800"), 0, NoRand)>>)]

\* sendFile(file): a Uint8Array is hashed at once and the apply-upload
\* request follows in the same turn; a path is first given to
\* fs.promises.stat, which the function awaits
SendFile(p, uid, isBuffer) ==
    /\ Turn(p)
    /\ CallsStarted < MaxCalls
    /\ LET f == Enter(uid, "sendFile")
           log == <<Open(f.id, "sendFile")>>
       IN IF isBuffer
          THEN apply1700(p, f, log)
          ELSE /\ run' = [run EXCEPT ![p] = [f EXCEPT !.at = "stat"]]
               /\ client' = [client EXCEPT !.wire = Put(f.id, log)]
               /\ sig' = sig
    /\ UNCHANGED <<weakmap, heap, profile, call, ret, ext, prev, pc, lseq, pseq>>

\* fs.promises.stat has settled: then await fileHash(file)
FileStat(p, ok) ==
    /\ run[p].at = "stat"
    /\ run' = IF ok THEN [run EXCEPT ![p].at = "hash"] ELSE Reject(p, "Error", Undef)
    /\ UNCHANGED <<client, weakmap, heap, profile, sig, call, ret, ext, prev, pc, lseq, pseq>>

\* fileHash has settled: the apply-upload request
FileHash(p, ok) ==
    /\ run[p].at = "hash"
    /\ IF ok
       THEN apply1700(p, run[p], <<>>)
       ELSE /\ run' = Reject(p, "Error", Undef)
            /\ UNCHANGED <<client, sig>>
    /\ UNCHANGED <<weakmap, heap, profile, call, ret, ext, prev, pc, lseq, pseq>>

\* sendFile going on whatever the code of the apply-upload response
Rsp1700_nodrop(p, r) ==
    /\ run[p].at = "a1700"
    /\ LET f == run[p]
           log == <<Rsp(f.id, CmdAt("a1700"), r.code, r.flag110)>>
       IN IF FALSE
          THEN /\ run' = Reject(p, "ApiRejection", r.code)
               /\ client' = [client EXCEPT !.wire = Put(f.id, log)]
               /\ sig' = sig
          ELSE IF ~r.has90 \/ (~r.flag110 /\ ~r.has220)
          THEN /\ run' = Reject(p, "TypeError", Undef)
               /\ client' = [client EXCEPT !.wire = Put(f.id, log)]
               /\ sig' = sig
          ELSE IF ~r.flag110
          THEN /\ run' = [run EXCEPT ![p].at = "upload"]
               /\ client' = [client EXCEPT
                               !.wire = Put(f.id, log \o <<Req(f.id, CmdAt("upload"), 0, NoRand)>>)]
               /\ sig' = sig
          ELSE success800(p, [f EXCEPT !.skip = TRUE], log)
    /\ UNCHANGED <<weakmap, heap, profile, call, ret, ext, prev, pc, lseq, pseq>>

\* the apply-upload response: drop(rsp1700[10], rsp1700[20]) unless [10] is 0;
\* fid = rsp1700[90].toBuffer(); unless rsp1700[110], the upload through
\* highwayHttpUpload with the key rsp1700[220].toBuffer(), awaited; else the
\* upload-success request at once
Rsp1700(p, r) ==
    /\ run[p].at = "a1700"
    /\ LET f == run[p]
           log == <<Rsp(f.id, CmdAt("a1700"), r.code, r.flag110)>>
       IN IF r.code # Num(0)
          THEN /\ run' = Reject(p, "ApiRejection", r.code)
               /\ client' = [client EXCEPT !.wire = Put(f.id, log)]
               /\ sig' = sig
          ELSE IF ~r.has90 \/ (~r.flag110 /\ ~r.has220)
          THEN /\ run' = Reject(p, "TypeError", Undef)
               /\ client' = [client EXCEPT !.wire = Put(f.id, log)]
               /\ sig' = sig
          ELSE IF ~r.flag110
          THEN /\ run' = [run EXCEPT ![p].at = "upload"]
               /\ client' = [client EXCEPT
                               !.wire = Put(f.id, log \o <<Req(f.id, CmdAt("upload"), 0, NoRand)>>)]
               /\ sig' = sig
          ELSE success800(p, [f EXCEPT !.skip = TRUE], log)
    /\ UNCHANGED <<weakmap, heap, profile, call, ret, ext, prev, pc, lseq, pseq>>

\* highwayHttpUpload has resolved: the upload-success request
Uploaded(p) ==
    /\ run[p].at = "upload"
    /\ success800(p, run[p], <<Rsp(run[p].id, CmdAt("upload"), Undef, FALSE)>>)
    /\ UNCHANGED <<weakmap, heap, profile, call, ret, ext, prev, pc, lseq, pseq>>

\* the upload-success response, which sendFile does not look at, whatever
\* its code: the file message through _sendMsg
Rsp800(p, code, rand) ==
    /\ run[p].at = "a800"
    /\ sendMsgBody(p, run[p], rand, <<Rsp(run[p].id, CmdAt("a800"), code, FALSE)>>)
    /\ UNCHANGED <<weakmap, heap, profile, call, ret, ext, prev, pc, lseq, pseq>>

\* an awaited request rejects (a timeout, a network error): the await
\* throws and the function with it
AwaitReject(p) ==
    /\ run[p].at \in {"a1700", "upload", "a800", "msg"}
    /\ run' = Reject(p, "Error", Undef)
    /\ client' = [client EXCEPT !.wire = Put(run[p].id, <<Err(run[p].id, CmdAt(run[p].at))>>)]
    /\ UNCHANGED <<weakmap, heap, profile, sig, call, ret, ext, prev, pc, lseq, pseq>>

\* each caller holds the Friend of one uid
FriendOf(p) == p

NextMsg ==
    \E p \in Procs :
        \/ \E rand \in Rands : SendMsg(p, FriendOf(p), rand)
        \/ \E rsp \in MsgRsps : SendMsgRsp(p, rsp)
        \/ \E isBuffer \in BOOLEAN : SendFile(p, FriendOf(p), isBuffer)
        \/ \E ok \in BOOLEAN : FileStat(p, ok)
        \/ \E ok \in BOOLEAN : FileHash(p, ok)
        \/ \E r \in Rsps1700 : Rsp1700(p, r)
        \/ Uploaded(p)
        \/ \E code \in {Num(0), Num(9)}, rand \in Rands : Rsp800(p, code, rand)
        \/ AwaitReject(p)

SpecMsg == InitMsg /\ [][NextMsg]_vars

----------------------------------------------------------------------------
(* Properties of _sendMsg *)

\* the bytes a base64 string stands for
RECURSIVE Unbase64(_)
Unbase64(c) ==
    IF Len(c) = 0 THEN <<>>
    ELSE IF c[3] = 64 THEN <<c[1] * 4 + c[2] \div 16>>
    ELSE IF c[4] = 64
    THEN <<c[1] * 4 + c[2] \div 16, (c[2] % 16) * 16 + c[3] \div 4>>
    ELSE <<c[1] * 4 + c[2] \div 16, (c[2] % 16) * 16 + c[3] \div 4, (c[3] % 4) * 64 + c[4]>>
         \o Unbase64(SubSeq(c, 5, Len(c)))

Last(q) == q[Len(q)]

\* in this step the call id got its PbSendMsg response
MsgAnswered(id) ==
    /\ id <= Len(client.wire)
    /\ Len(client'.wire[id]) = Len(client.wire[id]) + 1
    /\ Last(client.wire[id]).cmd = CmdAt("msg")
    /\ Last(client'.wire[id]).dir = "rsp"

\* what the step of a response must do, body being the request written
\* before the await and rsp the response
MsgOutcome(p, body, rsp) ==
    IF rsp.code # Num(0)
    THEN /\ run'[p].res.state = "rejected"
         /\ run'[p].res.code = rsp.code
         /\ client'.sent_msg_cnt = client.sent_msg_cnt
         /\ client'.events = client.events
    ELSE /\ client'.sent_msg_cnt = client.sent_msg_cnt + 1
         /\ Len(client'.events) = Len(client.events) + 1
         /\ SubSeq(client'.events, 1, Len(client.events)) = client.events
         /\ LET e == Last(client'.events)
                id == Unbase64(e.data.message_id)
            IN /\ e.name = "send"
               /\ e.data.seq = body.seq
               /\ e.data.rand = body.rand
               /\ ReadU32BE(id, 4) = body.seq
               /\ SubSeq(id, 9, 12) = RandBE(body.rand)
               /\ run'[p].res.state = "resolved"
               /\ run[p].fn = "sendMsg" => run'[p].res.msg = e.data

\* C15: when the PbSendMsg response arrives with a non-zero code the call
\* fails with that code, stat.sent_msg_cnt stays and no 'send' event is
\* emitted; with code zero the count grows by exactly one, exactly one 'send'
\* event is emitted, and the seq and rand of the MessageRet and of its
\* message_id are the ones written into the request body. No other step
\* touches the count or the events.
C15_SendOutcome ==
    [][\A p \in Procs :
          LET id == run[p].id
          IN IF run[p].at = "msg" /\ MsgAnswered(id)
             THEN MsgOutcome(p, Last(client.wire[id]), Last(client'.wire[id]))
             ELSE (\A q \in Procs : ~(run[q].at = "msg" /\ MsgAnswered(run[q].id)))
                  => /\ client'.sent_msg_cnt = client.sent_msg_cnt
                     /\ client'.events = client.events]_vars

\* one call was answered with a non-zero code and failed, another, whose
\* request was written while the first was in flight, was sent with a rand
\* above 2^31
C15_Witness ==
    /\ client.sent_msg_cnt = 1
    /\ Len(client.events) = 1
    /\ client.events[1].data.seq = 3
    /\ client.events[1].data.rand.hi >= 32768
    /\ \E p \in Procs :
          /\ run[p].res.state = "rejected"
          /\ run[p].res.code = Num(120)
          /\ run[p].seq = 2

----------------------------------------------------------------------------
(* Properties of sendFile *)

IsRsp(w, at) == w.dir = "rsp" /\ w.cmd = CmdAt(at)

\* the entry e may follow the entry d in the record of a call of sendFile
Follows(d, e) ==
    IF e.dir = "req"
    THEN CASE e.cmd = CmdAt("a1700") -> d.dir = "open"
           [] e.cmd = CmdAt("upload") ->
                  IsRsp(d, "a1700") /\ d.code = Num(0) /\ ~d.skip
           [] e.cmd = CmdAt("a800") ->
                  \/ IsRsp(d, "upload")
                  \/ IsRsp(d, "a1700") /\ d.code = Num(0) /\ d.skip
           [] e.cmd = CmdAt("msg") -> IsRsp(d, "a800")
    ELSE d.dir = "req" /\ d.cmd = e.cmd

FileCalls == {id \in 1..Len(client.wire) : client.wire[id][1].cmd = "sendFile"}

----------------------------------------------------------------------------
(* friend.ts: Friend.as. A FriendInfo object is named by the order of its
   creation, and so is a Friend instance: heap.friends[i] is the i-th
   Friend constructed, with the uid and the info it was given (0 for
   undefined). client.fl maps a uid to its FriendInfo object, 0 when it has
   none. weakmap[i] is the Friend held for the FriendInfo object i, 0 when
   none is. heap.calls is the record of the calls of Friend.as. *)

\* the calls of Friend.as in one behaviour
MaxAs == 4

\* the FriendInfo objects made in one behaviour
MaxInfos == 2

InitAs ==
    /\ profile = 1
    /\ sig = Sessions[3]
    /\ call = NoCall
    /\ ret = NoRet
    /\ ext = <<>>
    /\ prev = NoPrev
    /\ pc = [p \in Procs |-> "idle"]
    /\ lseq = [p \in Procs |-> 0]
    /\ pseq = [p \in Procs |-> 0]
    /\ client = [NoClient EXCEPT !.fl[1] = 1]
    /\ run = [p \in Procs |-> NoFrame]
    /\ weakmap = <<0>>
    /\ heap = [NoHeap EXCEPT !.infos = 1]

\* weakmap.get(info): undefined for a key that is not an object
weakmapGet(info) == IF info = 0 THEN 0 ELSE weakmap[info]

\* Friend.as leaving weakmap.set(info, friend) out
As_nocache(uid, strict) ==
    /\ Len(heap.calls) < MaxAs
    /\ LET info == client.fl[uid]
           friend == weakmapGet(info)
           new == Len(heap.friends) + 1
       IN IF strict /\ info = 0
          THEN /\ heap' = [heap EXCEPT !.calls = Append(@, [uid |-> uid, strict |-> strict,
                                                             friend |-> 0, threw |-> TRUE])]
               /\ weakmap' = weakmap
          ELSE IF friend # 0
          THEN /\ heap' = [heap EXCEPT !.calls = Append(@, [uid |-> uid, strict |-> strict,
                                                             friend |-> friend,
                                                             threw |-> FALSE])]
               /\ weakmap' = weakmap
          ELSE /\ heap' = [heap EXCEPT
                             !.friends = Append(@, [uid |-> uid, info |-> info]),
                             !.calls = Append(@, [uid |-> uid, strict |-> strict,
                                                  friend |-> new, threw |-> FALSE])]
               /\ weakmap' = weakmap
    /\ UNCHANGED <<client, run, profile, sig, call, ret, ext, prev, pc, lseq, pseq>>

\* Friend.as(uid, strict): info = this.fl.get(uid); throw when strict and
\* there is no info; the Friend held for info if there is one; else a new
\* Friend, held for info when there is an info
As(uid, strict) ==
    /\ Len(heap.calls) < MaxAs
    /\ LET info == client.fl[uid]
           friend == weakmapGet(info)
           new == Len(heap.friends) + 1
       IN IF strict /\ info = 0
          THEN /\ heap' = [heap EXCEPT !.calls = Append(@, [uid |-> uid, strict |-> strict,
                                                             friend |-> 0, threw |-> TRUE])]
               /\ weakmap' = weakmap
          ELSE IF friend # 0
          THEN /\ heap' = [heap EXCEPT !.calls = Append(@, [uid |-> uid, strict |-> strict,
                                                             friend |-> friend,
                                                             threw |-> FALSE])]
               /\ weakmap' = weakmap
          ELSE /\ heap' = [heap EXCEPT
                             !.friends = Append(@, [uid |-> uid, info |-> info]),
                             !.calls = Append(@, [uid |-> uid, strict |-> strict,
                                                  friend |-> new, threw |-> FALSE])]
               /\ weakmap' = IF info # 0 THEN [weakmap EXCEPT ![info] = new] ELSE weakmap
    /\ UNCHANGED <<client, run, profile, sig, call, ret, ext, prev, pc, lseq, pseq>>

\* the client puts a new FriendInfo object into its friend list: a friend
\* added, or the list loaded again
FlSet(uid) ==
    /\ heap.infos < MaxInfos
    /\ heap' = [heap EXCEPT !.infos = @ + 1]
    /\ client' = [client EXCEPT !.fl[uid] = heap.infos + 1]
    /\ weakmap' = Append(weakmap, 0)
    /\ UNCHANGED <<run, profile, sig, call, ret, ext, prev, pc, lseq, pseq>>

\* the client takes a friend off its list
FlDelete(uid) ==
    /\ client.fl[uid] # 0
    /\ client' = [client EXCEPT !.fl[uid] = 0]
    /\ UNCHANGED <<run, weakmap, heap, profile, sig, call, ret, ext, prev, pc, lseq, pseq>>

NextAs ==
    \E uid \in Uids :
        \/ \E strict \in BOOLEAN : As(uid, strict)
        \/ FlSet(uid)
        \/ FlDelete(uid)

SpecAs == InitAs /\ [][NextAs]_vars

----------------------------------------------------------------------------
(* Properties of Friend.as *)

\* in this step Friend.as was called; its record is the last of heap'.calls
AsCalled == Len(heap'.calls) = Len(heap.calls) + 1

\* what a call of Friend.as must do, given the friend list before it
AsOutcome(c) ==
    LET info == client.fl[c.uid]
        made == Len(heap'.friends) - Len(heap.friends)
        before == {k \in 1..Len(heap.friends) : heap.friends[k].info = info}
    IN /\ SubSeq(heap'.friends, 1, Len(heap.friends)) = heap.friends
       /\ IF info = 0
          THEN /\ weakmap' = weakmap
               /\ IF c.strict
                  THEN c.threw /\ made = 0
                  ELSE /\ ~c.threw /\ made = 1
                       /\ c.friend = Len(heap'.friends)
                       /\ heap'.friends[c.friend] = [uid |-> c.uid, info |-> 0]
          ELSE /\ ~c.threw
               /\ heap'.friends[c.friend].info = info
               /\ made = (IF before = {} THEN 1 ELSE 0)
               /\ before # {} => c.friend \in before

\* no two of the Friend instances fs were made for one FriendInfo object
OnePerInfo(fs) ==
    \A i, j \in 1..Len(fs) : fs[i].info # 0 /\ fs[i].info = fs[j].info => i = j

\* C17: at most one Friend instance exists per FriendInfo object, whatever
\* calls of Friend.as were made; a call for a uid whose entry is a FriendInfo
\* object returns the one Friend of that object; a strict call for an absent
\* uid throws, creating and caching nothing; a non-strict call for an absent
\* uid returns a new Friend that is not cached.
C17_OnePerInfo ==
    [][/\ OnePerInfo(heap'.friends)
       /\ AsCalled => AsOutcome(heap'.calls[Len(heap'.calls)])]_vars

\* a Friend was made and cached for the first uid, a non-strict call for the
\* absent second uid made an uncached one, a strict call for it threw, and
\* the first uid was then given the Friend made for it before
C17_Witness ==
    /\ Len(heap.calls) = 4
    /\ Len(heap.friends) = 2
    /\ heap.friends[1].info # 0
    /\ heap.friends[2].info = 0
    /\ heap.calls[3].threw
    /\ heap.calls[4].friend = 1
    /\ heap.calls[1].friend = 1

====
